---- MODULE Spec2Model ----
(***************************************************************************)
(* SkipListMap<K, V> of jbayardo/rust-skiplist (src/src/map.rs, node.rs,   *)
(* iter.rs, height_control.rs) as a state machine over an explicit heap.   *)
(*                                                                         *)
(* A node is a heap cell [key, value, forward]; forward is the vector of   *)
(* raw pointers forward_, level i of the code being forward[i + 1] here.   *)
(* The container is single threaded, so every public call is one action.   *)
(***************************************************************************)
EXTENDS Integers, Sequences, FiniteSets, TLC

\* ------------------------------------------------------------------ bounds
MaxKey == 3
MaxHeight == 2

Keys == 1..MaxKey

\* V is opaque to the code: values are moved and handed back, never compared
\* or branched on.  Two distinguishable payloads tell an old value from a new
\* one (tests/map.rs inserts element + 1, then element + 2).
Vals == {1, 2}

\* ------------------------------------------------------------------ heap
\* std::ptr::null_mut()
NULL == 0

\* Addresses Box::new can hand out: one per key plus one for the ghost node.
Addr == 1..(MaxKey + 1)

\* std::mem::uninitialized(): the ghost node's key and value
Uninit == 0

\* What a read of the ghost node's uninitialized key may produce: any key,
\* or something below or above every stored key.
GhostKeys == 0..(MaxKey + 1)

VARIABLES
    heap,        \* live allocations: address -> Node
    head_,       \* SkipListMap::head_
    length_,     \* SkipListMap::length_
    height_,     \* SkipListMap::height_
    max_height_, \* SkipListMap::max_height_
    controller_, \* SkipListMap::controller_, the boxed height generator
    last,        \* the call the client recorded and what it returned
    refset,      \* the reference ordered set of tests/map.rs, run side by side
    net          \* new-key inserts minus successful removes since new/clear

vars == <<heap, head_, length_, height_, max_height_, controller_, last, refset, net>>

\* Option<T>
None == <<>>
Some(x) == <<x>>

Max(a, b) == IF a >= b THEN a ELSE b

\* Node::new with vec![null; height]: one slot short
NodeNewShort(key, value, height) ==
    [key |-> key, value |-> value, forward |-> [i \in 1..height |-> NULL]]

\* Node::new: a forward vector of height + 1 null pointers
NodeNew(key, value, height) ==
    [key |-> key, value |-> value, forward |-> [i \in 1..(height + 1) |-> NULL]]

\* Node::height
NodeHeight(n) == Len(n.forward) - 1

\* Node::next / Node::next_mut: forward_.get(height), None when the level is
\* out of range or the pointer is null
NodeNext(h, a, level) ==
    IF (level + 1) \in DOMAIN h[a].forward THEN h[a].forward[level + 1] ELSE NULL

\* Node::link_to
LinkTo(h, a, level, dest) == [h EXCEPT ![a].forward[level + 1] = dest]

\* Node::link_to_next: self.forward_[height] = node.forward_[height]
LinkToNext(h, a, level, node) ==
    [h EXCEPT ![a].forward[level + 1] = h[node].forward[level + 1]]

\* debug_assert!(height <= self.height()) of Node::link_to
LinkToAsserts(h, a, level) == level <= NodeHeight(h[a])

\* the two debug_assert! of Node::link_to_next
LinkToNextAsserts(h, a, level, node) ==
    /\ level <= NodeHeight(h[a])
    /\ level <= NodeHeight(h[node])

\* replace_value that hands back the old value without storing the new one
ReplaceValueDropped(h, a, value) == h

\* Node::replace_value
ReplaceValue(h, a, value) == [h EXCEPT ![a].value = value]

\* Box::into_raw(Box::new(..)): some unused address.  The code never compares
\* or orders addresses, so which unused address comes back is immaterial; the
\* preferred one is taken when unused, otherwise the lowest unused one.
AllocAddr(h, pref) ==
    IF pref \in Addr \ DOMAIN h THEN pref
    ELSE CHOOSE a \in Addr \ DOMAIN h : \A b \in Addr \ DOMAIN h : a <= b

\* SkipListMap::allocate_node
AllocateNode(h, a, key, value, height) ==
    [x \in DOMAIN h \cup {a} |-> IF x = a THEN NodeNew(key, value, height) ELSE h[x]]

\* a free_node that leaks the allocation
FreeNodeLeaking(h, a) == h

\* SkipListMap::free_node
FreeNode(h, a) == [x \in DOMAIN h \ {a} |-> h[x]]

\* SkipListMap::allocate_dummy_node
AllocateDummyNode(h, a, max_height) == AllocateNode(h, a, Uninit, Uninit, max_height)

\* dispose without the free_node(current) that follows its loop
RECURSIVE DisposeLoopOnly(_, _)
DisposeLoopOnly(h, current) ==
    LET next == NodeNext(h, current, 0)
    IN  IF next # NULL THEN DisposeLoopOnly(FreeNode(h, current), next)
        ELSE h

\* SkipListMap::dispose: walk level 0 from `current`, freeing as it goes
RECURSIVE Dispose(_, _)
Dispose(h, current) ==
    LET next == NodeNext(h, current, 0)
    IN  IF next # NULL THEN Dispose(FreeNode(h, current), next)
        ELSE FreeNode(h, current)

\* What dispose touches, in order: each round reads (*current).next_mut(0)
\* and then frees current; `live` tells whether current was still allocated.
RECURSIVE DisposeTrace(_, _)
DisposeTrace(h, current) ==
    LET next == NodeNext(h, current, 0)
        round == <<[node |-> current, live |-> current \in DOMAIN h]>>
    IN  IF next # NULL THEN round \o DisposeTrace(FreeNode(h, current), next)
        ELSE round

\* ------------------------------------------------------------------ search
\* the search comparison written as next.key() <= key
KeyLessOrEqual(a, b) == a <= b

\* next.key() < key
KeyLess(a, b) == a < b

\* the inner loop written as an `if`: one step at most per level
AdvanceOnce(h, current, level, key) ==
    LET next == NodeNext(h, current, level)
    IN  IF next # NULL /\ KeyLess(h[next].key, key) THEN next ELSE current

\* the inner `while let Some(next) = current.next(height)` loop
RECURSIVE Advance(_, _, _, _)
Advance(h, current, level, key) ==
    LET next == NodeNext(h, current, level)
    IN  IF next # NULL /\ KeyLess(h[next].key, key)
        THEN Advance(h, next, level, key)
        ELSE current

\* the outer `for height in (0..max(height_, 1)).rev()` loop
RECURSIVE Descend(_, _, _, _)
Descend(h, current, level, key) ==
    LET c == Advance(h, current, level, key)
    IN  IF level = 0 THEN c ELSE Descend(h, c, level - 1, key)

\* std::cmp::max(self.height_, 1): number of levels a search walks
SearchLevels(height) == Max(height, 1)

\* SkipListMap::find_lower_bound
FindLowerBound(h, hd, height, key) == Descend(h, hd, SearchLevels(height) - 1, key)

\* the inner loop of find_lower_bound_mut written with next.key() <= key
RECURSIVE AdvanceMutInclusive(_, _, _, _)
AdvanceMutInclusive(h, current, level, key) ==
    LET next == NodeNext(h, current, level)
    IN  IF next # NULL /\ KeyLessOrEqual(h[next].key, key)
        THEN AdvanceMutInclusive(h, next, level, key)
        ELSE current

\* the inner `while let Some(next) = current.next_mut(height)` loop of
\* find_lower_bound_mut (next_mut reads the slot next reads)
RECURSIVE AdvanceMut(_, _, _, _)
AdvanceMut(h, current, level, key) ==
    LET next == NodeNext(h, current, level)
    IN  IF next # NULL /\ KeyLess(h[next].key, key)
        THEN AdvanceMut(h, next, level, key)
        ELSE current

\* the outer loop of find_lower_bound_mut
RECURSIVE DescendMut(_, _, _, _)
DescendMut(h, current, level, key) ==
    LET c == AdvanceMut(h, current, level, key)
    IN  IF level = 0 THEN c ELSE DescendMut(h, c, level - 1, key)

\* SkipListMap::find_lower_bound_mut
FindLowerBoundMut(h, hd, height, key) == DescendMut(h, hd, Max(height, 1) - 1, key)

\* the loop storing updates[height] before the level is walked, not after
RECURSIVE DescendUpdatesEarly(_, _, _, _, _)
DescendUpdatesEarly(h, current, level, key, updates) ==
    LET c == Advance(h, current, level, key)
        u == [updates EXCEPT ![level + 1] = current]
    IN  IF level = 0 THEN <<c, u>> ELSE DescendUpdatesEarly(h, c, level - 1, key, u)

\* the same loop, storing updates[height] = current after each level
RECURSIVE DescendUpdates(_, _, _, _, _)
DescendUpdates(h, current, level, key, updates) ==
    LET c == Advance(h, current, level, key)
        u == [updates EXCEPT ![level + 1] = c]
    IN  IF level = 0 THEN <<c, u>> ELSE DescendUpdates(h, c, level - 1, key, u)

\* updates[height] = .. indexes a Vec of max_height entries: it panics when a
\* walked level is not below max_height
UpdatesPanics(height, max_height) == SearchLevels(height) > max_height

\* SkipListMap::find_lower_bound_with_updates: entries height_.. start as the
\* head, the entries below are written by the walk
FindLowerBoundWithUpdates(h, hd, height, max_height, key) ==
    DescendUpdates(h, hd, SearchLevels(height) - 1, key,
                   [i \in 1..max_height |-> IF i - 1 >= height THEN hd ELSE NULL])

\* ------------------------------------------------------------------ reads
\* SkipListMap::get
Get(h, hd, height, key) ==
    LET next == NodeNext(h, FindLowerBound(h, hd, height, key), 0)
    IN  IF next # NULL /\ h[next].key = key THEN Some(h[next].value) ELSE None

\* SkipListMap::contains_key
ContainsKey(h, hd, height, key) == Get(h, hd, height, key) # None

\* SkipListMap::len
LenOf(length) == length

\* is_empty comparing the length with 1
IsEmptyAtOne(length) == length = 1

\* SkipListMap::is_empty
IsEmpty(length) == length = 0

\* Iter::new followed by Iter::next until it returns None: the (key, value)
\* pairs on the level-0 chain after `current`
RECURSIVE IterFrom(_, _)
IterFrom(h, current) ==
    IF current = NULL THEN <<>>
    ELSE <<<<h[current].key, h[current].value>>>> \o IterFrom(h, NodeNext(h, current, 0))

\* SkipListMap::iter, collected
IterSeq(h, hd) == IterFrom(h, NodeNext(h, hd, 0))

\* an Iter::new that starts on the ghost node itself
IterNewAtHead(h, hd) == hd

\* Iter::new: Iter((*list.head_).next(0)), the cursor self.0
IterNew(h, hd) == NodeNext(h, hd, 0)

\* Iter::next: the item handed back and the cursor left in self.0
IterNext(h, cursor) ==
    [item |-> IF cursor = NULL THEN None
              ELSE Some(<<h[cursor].key, h[cursor].value>>),
     cursor |-> IF cursor = NULL THEN NULL ELSE NodeNext(h, cursor, 0)]

\* what `calls` successive calls of next() hand back
RECURSIVE IterRun(_, _, _)
IterRun(h, cursor, calls) ==
    IF calls = 0 THEN <<>>
    ELSE LET step == IterNext(h, cursor)
         IN  <<step.item>> \o IterRun(h, step.cursor, calls - 1)

\* Iterator::size_hint of Iter: the struct holds the cursor self.0 alone and
\* its impl of Iterator defines next() only, so the answer is the trait's
\* default (0, None) whatever the cursor is
IterSizeHint(cursor) == [lower |-> 0, upper |-> None]

\* the cursor after `calls` successive calls of next()
RECURSIVE IterCursorAfter(_, _, _)
IterCursorAfter(h, cursor, calls) ==
    IF calls = 0 THEN cursor
    ELSE IterCursorAfter(h, IterNext(h, cursor).cursor, calls - 1)

\* ------------------------------------------------------------------ calls
NoBound == [kind |-> "Unbounded", key |-> 0]

\* The record kept of a call: its name, arguments, Option result, whether it
\* panicked, how many nodes it freed, how many times it called
\* controller_.get_height, whether it read the ghost node's key, whether
\* every debug_assert! it reached held, and (iter, range) the sequence it
\* yielded.
Call(op, key, value, ret, panicked) ==
    [op |-> op, key |-> key, value |-> value, ret |-> ret, panicked |-> panicked,
     freed |-> 0, calls |-> 0, ghost |-> FALSE, asserted |-> TRUE, out |-> <<>>,
     lo |-> NoBound, hi |-> NoBound]

\* no call recorded yet
Idle == Call("none", 0, 0, None, FALSE)

\* The client records the call it is making (watch) or lets it go unrecorded.
Record(watch, call) == IF watch THEN call ELSE Idle

\* ------------------------------------------------------------- generators
\* Width of the words the model hashes and draws (u64 and usize in the code).
WordBits == 3

Pow2(n) == 2 ^ n

Words == 0..(Pow2(WordBits) - 1)

\* u64::trailing_zeros / usize::trailing_zeros: the width for the word 0
RECURSIVE TrailingZeros(_)
TrailingZeros(w) ==
    IF w = 0 THEN WordBits
    ELSE IF w % 2 = 1 THEN 0 ELSE 1 + TrailingZeros(w \div 2)

\* usize & usize
RECURSIVE BitAnd(_, _)
BitAnd(a, b) ==
    IF a = 0 \/ b = 0 THEN 0
    ELSE (a % 2) * (b % 2) + 2 * BitAnd(a \div 2, b \div 2)

\* usize::is_power_of_two
IsPowerOfTwo(n) == \E k \in 0..WordBits : n = Pow2(k)

\* GeometricalGenerator::new
GeometricalGenerator(max_height) ==
    [kind |-> "Geometrical", max_height_ |-> max_height, max_pow_ |-> 0, hasher_ |-> 0]

\* HashCoinGenerator::new, handed a hasher in the state `hasher`
HashCoinGenerator(max_height, hasher) ==
    [kind |-> "HashCoin", max_height_ |-> max_height, max_pow_ |-> 0, hasher_ |-> hasher]

\* TwoPowGenerator::new, past its assert!(max_height.is_power_of_two())
TwoPowGenerator(max_height) ==
    [kind |-> "TwoPow", max_height_ |-> 0, max_pow_ |-> max_height - 1, hasher_ |-> 0]

\* HeightControl::max_height of the three generators
MaxHeightOf(c) == IF c.kind = "TwoPow" THEN c.max_pow_ + 1 ELSE c.max_height_

\* The generators a caller can construct within the bounds.
Generators ==
    {GeometricalGenerator(m) : m \in 0..MaxHeight}
    \cup {HashCoinGenerator(m, s) : m \in 0..MaxHeight, s \in Words}
    \cup {TwoPowGenerator(m) : m \in {n \in 0..MaxHeight : IsPowerOfTwo(n)}}

\* The loop of GeometricalGenerator::get_height; throws[i] tells whether the
\* i-th draw upgrades (throw < upgrade_probability_).
RECURSIVE GeometricalLoop(_, _, _)
GeometricalLoop(h, max_height, throws) ==
    IF h < max_height
    THEN IF ~throws[h + 1] THEN h ELSE GeometricalLoop(h + 1, max_height, throws)
    ELSE h

\* GeometricalGenerator::get_height
GeometricalGetHeight(c, throws) == GeometricalLoop(0, c.max_height_, throws)

\* key.hash(&mut self.hasher_): H is a type parameter; a Hasher folds every
\* write into its running state, here multiplicatively, and never resets it.
HasherWrite(hasher, key) == (hasher * 5 + key) % Pow2(WordBits)

\* self.hasher_.finish()
HasherFinish(hasher) == hasher

\* height % self.max_height_ of HashCoinGenerator::get_height divides by zero
HashCoinPanics(c) == c.max_height_ = 0

\* HashCoinGenerator::get_height, on the hasher state after the write
HashCoinGetHeight(c, hasher) == TrailingZeros(HasherFinish(hasher)) % c.max_height_

\* TwoPowGenerator::get_height on the random word `rand`
TwoPowGetHeight(c, rand) == BitAnd(TrailingZeros(rand), c.max_pow_)

\* the loop written `while h <= self.max_height_`: one level more
GenHeightsOneMore(max_height) == 0..(max_height + 1)

\* Heights get_height can hand to insert: GeometricalGenerator counts h up
\* from 0 and returns it when a throw fails or when h reaches max_height_;
\* the other two generators return a subset of these.
GenHeights(max_height) == 0..max_height

\* SkipListMap::new
Init ==
    /\ max_height_ \in 0..MaxHeight
    /\ controller_ = GeometricalGenerator(max_height_)
    /\ head_ = AllocAddr(<<>>, MaxKey + 1)
    /\ heap = AllocateDummyNode(<<>>, head_, max_height_)
    /\ length_ = 0
    /\ height_ = 0
    /\ last = Idle
    /\ refset = {}
    /\ net = 0

\* the splice loop bounded by take(height), without the floor of one level
SpliceLevelsNoFloor(height) == height

\* a splice loop that runs one level past the node's own
SpliceLevelsOneMore(height) == height + 2

\* take(std::cmp::max(height, 1)) of the splice loop
SpliceLevels(height) == Max(height, 1)

\* the splice loop of insert over updates.iter_mut().enumerate().take(n)
RECURSIVE Splice(_, _, _, _, _)
Splice(h, node, updates, level, n) ==
    IF level >= n \/ level >= Len(updates) THEN h
    ELSE LET update == updates[level + 1]
             h1 == LinkToNext(h, node, level, update)
             h2 == LinkTo(h1, update, level, node)
         IN  Splice(h2, node, updates, level + 1, n)

\* whether every debug_assert! the splice loop reaches holds
RECURSIVE SpliceAsserts(_, _, _, _, _)
SpliceAsserts(h, node, updates, level, n) ==
    IF level >= n \/ level >= Len(updates) THEN TRUE
    ELSE LET update == updates[level + 1]
             h1 == LinkToNext(h, node, level, update)
             h2 == LinkTo(h1, update, level, node)
         IN  /\ LinkToNextAsserts(h, node, level, update)
             /\ LinkToAsserts(h1, update, level)
             /\ SpliceAsserts(h2, node, updates, level + 1, n)

\* insert without its update of self.height_
HeightAfterInsertKept(old, height) == old

\* self.height_ = height, without the max
HeightAfterInsertLatest(old, height) == height

\* self.height_ = std::cmp::max(self.height_, height)
HeightAfterInsert(old, height) == Max(old, height)

\* insert without its self.length_ += 1
LengthAfterInsertKept(length) == length

\* self.length_ += 1
LengthAfterInsert(length) == length + 1

\* The record of an insert: `let height = self.controller_.get_height(&key)`
\* is its first statement, ahead of the search and of the duplicate check.
InsertCall(key, value, ret, panicked) ==
    [Call("insert", key, value, ret, panicked) EXCEPT !.calls = 1]

\* SkipListMap::insert
Insert(key, value, height, watch) ==
    IF UpdatesPanics(height_, max_height_)
    THEN /\ last' = Record(watch, InsertCall(key, value, None, TRUE))
         /\ UNCHANGED <<heap, head_, length_, height_, max_height_, controller_, refset, net>>
    ELSE LET r == FindLowerBoundWithUpdates(heap, head_, height_, max_height_, key)
             lower_bound == r[1]
             updates == r[2]
             next == NodeNext(heap, lower_bound, 0)
         IN  IF next # NULL /\ heap[next].key = key
             THEN /\ heap' = ReplaceValue(heap, next, value)
                  /\ last' = Record(watch, InsertCall(key, value,
                                                      Some(heap[next].value), FALSE))
                  /\ refset' = refset \cup {key}
                  /\ UNCHANGED <<head_, length_, height_, max_height_, controller_, net>>
             ELSE /\ Addr \ DOMAIN heap # {}
                  /\ LET node == AllocAddr(heap, key)
                         h0 == AllocateNode(heap, node, key, value, height)
                     IN  heap' = Splice(h0, node, updates, 0, SpliceLevels(height))
                  /\ height_' = HeightAfterInsert(height_, height)
                  /\ length_' = LengthAfterInsert(length_)
                  /\ last' = Record(watch,
                                [InsertCall(key, value, None, FALSE) EXCEPT
                                    !.asserted =
                                        LET node == AllocAddr(heap, key)
                                        IN  SpliceAsserts(
                                                AllocateNode(heap, node, key, value, height),
                                                node, updates, 0, SpliceLevels(height))])
                  /\ refset' = refset \cup {key}
                  /\ net' = net + 1
                  /\ UNCHANGED <<head_, max_height_, controller_>>

\* an unlink loop that stops after level 0
RemoveLevelsBaseOnly(removal_height) == 1

\* take(std::cmp::max(removal.height(), 1)) of the unlink loop
RemoveLevels(removal_height) == Max(removal_height, 1)

\* an unlink loop that nulls the predecessor's pointer instead of taking the
\* removed node's successor
RECURSIVE UnlinkTruncating(_, _, _, _, _)
UnlinkTruncating(h, removal, updates, level, n) ==
    IF level >= n \/ level >= Len(updates) THEN h
    ELSE UnlinkTruncating(LinkTo(h, updates[level + 1], level, NULL),
                          removal, updates, level + 1, n)

\* an unlink loop that leaves level 0 alone (skip(1))
RECURSIVE UnlinkAboveBase(_, _, _, _, _)
UnlinkAboveBase(h, removal, updates, level, n) ==
    IF level >= n \/ level >= Len(updates) THEN h
    ELSE UnlinkAboveBase((IF level = 0 THEN h
                          ELSE LinkToNext(h, updates[level + 1], level, removal)),
                         removal, updates, level + 1, n)

\* the unlink loop of remove
RECURSIVE Unlink(_, _, _, _, _)
Unlink(h, removal, updates, level, n) ==
    IF level >= n \/ level >= Len(updates) THEN h
    ELSE Unlink(LinkToNext(h, updates[level + 1], level, removal),
                removal, updates, level + 1, n)

\* whether every debug_assert! the unlink loop reaches holds
RECURSIVE UnlinkAsserts(_, _, _, _, _)
UnlinkAsserts(h, removal, updates, level, n) ==
    IF level >= n \/ level >= Len(updates) THEN TRUE
    ELSE /\ LinkToNextAsserts(h, updates[level + 1], level, removal)
         /\ UnlinkAsserts(LinkToNext(h, updates[level + 1], level, removal),
                          removal, updates, level + 1, n)

\* remove without its removal.key() != key return
RemoveMissesNullOnly(h, removal, key) == removal = NULL

\* the two early returns of remove: no successor, or removal.key() != key
RemoveMisses(h, removal, key) == removal = NULL \/ h[removal].key # key

\* remove without its self.length_ -= 1
LengthAfterRemoveKept(length) == length

\* self.length_ -= 1
LengthAfterRemove(length) == length - 1

\* SkipListMap::remove
Remove(key, watch) ==
    IF UpdatesPanics(height_, max_height_)
    THEN /\ last' = Record(watch, Call("remove", key, 0, None, TRUE))
         /\ UNCHANGED <<heap, head_, length_, height_, max_height_, controller_, refset, net>>
    ELSE LET r == FindLowerBoundWithUpdates(heap, head_, height_, max_height_, key)
             lower_bound == r[1]
             updates == r[2]
             removal == NodeNext(heap, lower_bound, 0)
         IN  IF RemoveMisses(heap, removal, key)
             THEN /\ last' = Record(watch, Call("remove", key, 0, None, FALSE))
                  /\ refset' = refset \ {key}
                  /\ UNCHANGED <<heap, head_, length_, height_, max_height_, controller_, net>>
             ELSE /\ LET h1 == Unlink(heap, removal, updates, 0,
                                      RemoveLevels(NodeHeight(heap[removal])))
                         h2 == ReplaceValue(h1, removal, Uninit)
                     IN  heap' = FreeNode(h2, removal)
                  /\ length_' = LengthAfterRemove(length_)
                  /\ last' = Record(watch,
                                [Call("remove", key, 0, Some(heap[removal].value), FALSE)
                                    EXCEPT !.freed = 1,
                                           !.asserted =
                                               UnlinkAsserts(heap, removal, updates, 0,
                                                   RemoveLevels(NodeHeight(heap[removal])))])
                  /\ refset' = refset \ {key}
                  /\ net' = net - 1
                  /\ UNCHANGED <<head_, height_, max_height_, controller_>>

\* self.height_ = 0 of clear
HeightAfterClear(old) == 0

\* clear without its self.length_ = 0
LengthAfterClearKept(old) == old

\* self.length_ = 0 of clear
LengthAfterClear(old) == 0

\* SkipListMap::clear
Clear(watch) ==
    LET disposed == Dispose(heap, head_)
        dummy == AllocAddr(disposed, MaxKey + 1)
    IN  /\ head_' = dummy
        /\ heap' = AllocateDummyNode(disposed, dummy, max_height_)
        /\ length_' = LengthAfterClear(length_)
        /\ height_' = HeightAfterClear(height_)
        /\ last' = Record(watch, [Call("clear", 0, 0, None, FALSE) EXCEPT
                            !.freed = Cardinality(DOMAIN heap \ DOMAIN disposed),
                            !.out = DisposeTrace(heap, head_)])
        /\ refset' = {}
        /\ net' = 0
        /\ UNCHANGED <<max_height_, controller_>>

\* Drop::drop: the map goes out of scope; head_ is left dangling
Drop ==
    /\ heap' = Dispose(heap, head_)
    /\ last' = [Call("drop", 0, 0, None, FALSE) EXCEPT
                    !.freed = Cardinality(DOMAIN heap \ DOMAIN heap'),
                    !.out = DisposeTrace(heap, head_)]
    /\ UNCHANGED <<head_, length_, height_, max_height_, controller_, refset, net>>

\* a get that, having searched, trims height_ to the levels the ghost node
\* still links
GetCallTrimming(key) ==
    /\ last' = Call("get", key, 0, Get(heap, head_, height_, key), FALSE)
    /\ height_' = Cardinality({i \in 0..(NodeHeight(heap[head_])) :
                                  NodeNext(heap, head_, i) # NULL})
    /\ UNCHANGED <<heap, head_, length_, max_height_, controller_, refset, net>>

\* a call of SkipListMap::get
GetCall(key) ==
    /\ last' = Call("get", key, 0, Get(heap, head_, height_, key), FALSE)
    /\ UNCHANGED <<heap, head_, length_, height_, max_height_, controller_, refset, net>>

\* SkipListMap::first
First(h, hd) ==
    LET node == NodeNext(h, hd, 0)
    IN  IF node = NULL THEN None ELSE Some(<<h[node].key, h[node].value>>)

\* a call of SkipListMap::contains_key
ContainsKeyCall(key) ==
    /\ last' = Call("contains_key", key, 0, Some(ContainsKey(heap, head_, height_, key)), FALSE)
    /\ UNCHANGED <<heap, head_, length_, height_, max_height_, controller_, refset, net>>

\* a call of SkipListMap::first
FirstCall ==
    /\ last' = Call("first", 0, 0, First(heap, head_), FALSE)
    /\ UNCHANGED <<heap, head_, length_, height_, max_height_, controller_, refset, net>>

\* a call of SkipListMap::len
LenCall ==
    /\ last' = Call("len", 0, 0, Some(LenOf(length_)), FALSE)
    /\ UNCHANGED <<heap, head_, length_, height_, max_height_, controller_, refset, net>>

\* a call of SkipListMap::is_empty
IsEmptyCall ==
    /\ last' = Call("is_empty", 0, 0, Some(IsEmpty(length_)), FALSE)
    /\ UNCHANGED <<heap, head_, length_, height_, max_height_, controller_, refset, net>>

\* an unwrap that hands back a default instead of panicking on None
UnwrapPanicsNever(opt) == FALSE

\* Option::unwrap panics on None
UnwrapPanics(opt) == opt = None

\* Index::index: self.get(index).unwrap()
IndexCall(key) ==
    /\ LET found == Get(heap, head_, height_, key)
       IN  last' = Call("index", key, 0, found, UnwrapPanics(found))
    /\ UNCHANGED <<heap, head_, length_, height_, max_height_, controller_, refset, net>>

\* `printed >= 1` taken as `printed >= 0`: a separator after every entry
SeparatorFollowsAlways(printed) == printed >= 0

\* likely!(printed >= 1) on a usize; a negative number stands for the value
\* printed -= 1 wraps to below zero, which is >= 1
SeparatorFollows(printed) == printed >= 1 \/ printed < 0

\* The for loop of Display::fmt over self.iter(): the pieces written, "{}"
\* of a key or value being its decimal text.
RECURSIVE FmtEntries(_, _)
FmtEntries(entries, printed) ==
    IF entries = <<>> THEN <<>>
    ELSE LET left == printed - 1
             key == ToString(Head(entries)[1])
             value == ToString(Head(entries)[2])
         IN  (IF SeparatorFollows(left)
              THEN <<key, ": ", value, ", ">>
              ELSE <<key, ": ", value>>) \o FmtEntries(Tail(entries), left)

\* Display::fmt for SkipListMap
Fmt(h, hd, length) == <<"[">> \o FmtEntries(IterSeq(h, hd), LenOf(length)) \o <<"]">>

\* a call of Display::fmt (format!("{}", map))
FmtCall ==
    /\ last' = [Call("fmt", 0, 0, None, FALSE) EXCEPT !.out = Fmt(heap, head_, length_)]
    /\ UNCHANGED <<heap, head_, length_, height_, max_height_, controller_, refset, net>>

\* a call of SkipListMap::iter, run to exhaustion
IterCall ==
    /\ last' = [Call("iter", 0, 0, None, FALSE) EXCEPT !.out = IterSeq(heap, head_)]
    /\ UNCHANGED <<heap, head_, length_, height_, max_height_, controller_, refset, net>>

\* ------------------------------------------- SkipList<K, V> of skiplist.rs
\* The struct has the fields of SkipListMap and its new, clear, dispose, the
\* two searches and remove read as those of map.rs do; insert and the value
\* remove returns differ.

\* a duplicate test that never matches
IsDuplicateNever(h, next, key) == FALSE

\* insert, `Some(next) if next.key() == &key => return false`
IsDuplicate(h, next, key) == next # NULL /\ h[next].key = key

\* SkipList::insert of skiplist.rs: false and nothing else when the key is
\* there, otherwise the splice of a new node and true
SkipListInsert(key, value, height, watch) ==
    IF UpdatesPanics(height_, max_height_)
    THEN /\ last' = Record(watch, [Call("insert_bool", key, value, None, TRUE)
                                      EXCEPT !.calls = 1])
         /\ UNCHANGED <<heap, head_, length_, height_, max_height_, controller_, refset, net>>
    ELSE LET r == FindLowerBoundWithUpdates(heap, head_, height_, max_height_, key)
             lower_bound == r[1]
             updates == r[2]
             next == NodeNext(heap, lower_bound, 0)
         IN  IF IsDuplicate(heap, next, key)
             THEN /\ last' = Record(watch, [Call("insert_bool", key, value, Some(FALSE), FALSE)
                                               EXCEPT !.calls = 1])
                  /\ UNCHANGED <<heap, head_, length_, height_, max_height_, controller_,
                                 refset, net>>
             ELSE /\ Addr \ DOMAIN heap # {}
                  /\ LET node == AllocAddr(heap, key)
                         h0 == AllocateNode(heap, node, key, value, height)
                     IN  heap' = Splice(h0, node, updates, 0, SpliceLevels(height))
                  /\ height_' = HeightAfterInsert(height_, height)
                  /\ length_' = LengthAfterInsert(length_)
                  /\ last' = Record(watch, [Call("insert_bool", key, value, Some(TRUE), FALSE)
                                               EXCEPT !.calls = 1])
                  /\ refset' = refset \cup {key}
                  /\ net' = net + 1
                  /\ UNCHANGED <<head_, max_height_, controller_>>

\* SkipList::remove of skiplist.rs, its bool let go
SkipListRemove(key) == Remove(key, FALSE)

\* SkipList::clear of skiplist.rs
SkipListClear == Clear(FALSE)

\* ------------------------------------------------- SkipList<K> of list.rs
\* The key-only list: fields head_, length_, upgrade_probability_,
\* max_height_ and height_.  Its nodes are Node<K>, whose accessors are those
\* of the node described in the data model: forward[0..=height], a null link
\* standing for "no next node".  A cell of the heap keeps its value field,
\* never written nor read here.

\* Node::new(key, height) of Node<K>
ListNodeNew(key, height) ==
    [key |-> key, value |-> Uninit, forward |-> [i \in 1..(height + 1) |-> NULL]]

\* Node::next / Node::mut_ptr_next of Node<K>: the link at a level
ListNext(h, a, level) ==
    IF (level + 1) \in DOMAIN h[a].forward THEN h[a].forward[level + 1] ELSE NULL

\* Node::has_next of Node<K>
HasNext(h, a, level) == ListNext(h, a, level) # NULL

\* Node::set_next of Node<K>
SetNext(h, a, level, dest) == [h EXCEPT ![a].forward[level + 1] = dest]

\* Node::height of Node<K>
ListNodeHeight(n) == Len(n.forward) - 1

\* K::default(), the key the head node is built with
DefaultKey == 0

\* random_height: h counts the throws below upgrade_probability_ and stops at
\* max_height_
RandomHeights(max_height) == 0..max_height

\* the inner `while current.has_next(height) && current.next(height).key() < key`
RECURSIVE ListAdvance(_, _, _, _)
ListAdvance(h, current, level, key) ==
    IF HasNext(h, current, level) /\ h[ListNext(h, current, level)].key < key
    THEN ListAdvance(h, ListNext(h, current, level), level, key)
    ELSE current

\* the number of levels `for height in (0..self.height_).rev()` walks
ListSearchLevels(height) == height

\* the outer loop of find_lower_bound from `level` down to 0; no level is
\* walked when level is -1
RECURSIVE ListDescend(_, _, _, _)
ListDescend(h, current, level, key) ==
    IF level < 0 THEN current
    ELSE ListDescend(h, ListAdvance(h, current, level, key), level - 1, key)

\* SkipList::find_lower_bound of list.rs
ListFindLowerBound(h, hd, height, key) ==
    ListDescend(h, hd, ListSearchLevels(height) - 1, key)

\* the outer loop of find_lower_bound_with_updates, storing
\* updates[height] = current after each level
RECURSIVE ListDescendUpdates(_, _, _, _, _)
ListDescendUpdates(h, current, level, key, updates) ==
    IF level < 0 THEN <<current, updates>>
    ELSE LET c == ListAdvance(h, current, level, key)
         IN  ListDescendUpdates(h, c, level - 1, key, [updates EXCEPT ![level + 1] = c])

\* SkipList::find_lower_bound_with_updates of list.rs: entries
\* height_..max_height_ are the head, the ones below are written by the walk
ListFindLowerBoundWithUpdates(h, hd, height, max_height, key) ==
    ListDescendUpdates(h, hd, ListSearchLevels(height) - 1, key,
                       [i \in 1..max_height |-> IF i - 1 >= height THEN hd ELSE NULL])

\* SkipList::get of list.rs
ListGet(h, hd, height, key) ==
    LET node == ListFindLowerBound(h, hd, height, key)
        next == ListNext(h, node, 0)
    IN  IF next = NULL THEN None
        ELSE IF h[next].key = key THEN Some(h[next].key) ELSE None

\* SkipList::contains of list.rs
ListContains(h, hd, height, key) == ListGet(h, hd, height, key) # None

\* the splice loop `for h in 0..max(height, 1)` of insert
RECURSIVE ListSplice(_, _, _, _, _)
ListSplice(h, node, updates, level, n) ==
    IF level >= n THEN h
    ELSE LET h1 == SetNext(h, node, level, ListNext(h, updates[level + 1], level))
             h2 == SetNext(h1, updates[level + 1], level, node)
         IN  ListSplice(h2, node, updates, level + 1, n)

\* the unlink loop `for h in 0..max(next.height(), 1)` of remove
RECURSIVE ListUnlink(_, _, _, _, _)
ListUnlink(h, next, updates, level, n) ==
    IF level >= n THEN h
    ELSE ListUnlink(SetNext(h, updates[level + 1], level, ListNext(h, next, level)),
                    next, updates, level + 1, n)

\* SkipList::new of list.rs: max_height > 0 is asserted
InitList ==
    /\ max_height_ \in 1..MaxHeight
    /\ controller_ = GeometricalGenerator(max_height_)
    /\ head_ = AllocAddr(<<>>, MaxKey + 1)
    /\ heap = (head_ :> ListNodeNew(DefaultKey, max_height_))
    /\ length_ = 0
    /\ height_ = 0
    /\ last = Idle
    /\ refset = {}
    /\ net = 0

\* SkipList::insert of list.rs
ListInsert(key, height, watch) ==
    LET r == ListFindLowerBoundWithUpdates(heap, head_, height_, max_height_, key)
        current == r[1]
        updates == r[2]
    IN  IF HasNext(heap, current, 0) /\ heap[ListNext(heap, current, 0)].key = key
        THEN /\ last' = Record(watch, Call("list_insert", key, 0, Some(FALSE), FALSE))
             /\ UNCHANGED <<heap, head_, length_, height_, max_height_, controller_,
                            refset, net>>
        ELSE /\ Addr \ DOMAIN heap # {}
             /\ LET node == AllocAddr(heap, key)
                    h0 == [x \in DOMAIN heap \cup {node} |->
                              IF x = node THEN ListNodeNew(key, height) ELSE heap[x]]
                IN  heap' = ListSplice(h0, node, updates, 0, Max(height, 1))
             /\ height_' = Max(height_, height)
             /\ length_' = length_ + 1
             /\ last' = Record(watch, [Call("list_insert", key, 0, Some(TRUE), FALSE)
                                          EXCEPT !.calls = 1])
             /\ refset' = refset \cup {key}
             /\ net' = net + 1
             /\ UNCHANGED <<head_, max_height_, controller_>>

\* SkipList::remove of list.rs
ListRemove(key, watch) ==
    LET r == ListFindLowerBoundWithUpdates(heap, head_, height_, max_height_, key)
        current == r[1]
        updates == r[2]
        next == ListNext(heap, current, 0)
    IN  IF ~HasNext(heap, current, 0) \/ heap[next].key # key
        THEN /\ last' = Record(watch, Call("list_remove", key, 0, Some(FALSE), FALSE))
             /\ refset' = refset \ {key}
             /\ UNCHANGED <<heap, head_, length_, height_, max_height_, controller_, net>>
        ELSE /\ heap' = FreeNode(ListUnlink(heap, next, updates, 0,
                                            Max(ListNodeHeight(heap[next]), 1)), next)
             /\ length_' = length_ - 1
             /\ last' = Record(watch, [Call("list_remove", key, 0, Some(TRUE), FALSE)
                                          EXCEPT !.freed = 1])
             /\ refset' = refset \ {key}
             /\ net' = net - 1
             /\ UNCHANGED <<head_, height_, max_height_, controller_>>

\* a call of SkipList::contains of list.rs
ListContainsCall(key) ==
    /\ last' = Call("list_contains", key, 0,
                    Some(ListContains(heap, head_, height_, key)), FALSE)
    /\ UNCHANGED <<heap, head_, length_, height_, max_height_, controller_, refset, net>>

\* ---------------------------------------------------------------- iter_mut
\* an IterMut::next that hands back the node after the one under the cursor
IterMutNextSkipping(h, cursor) ==
    IF cursor = NULL THEN [item |-> None, cursor |-> NULL]
    ELSE LET node == NodeNext(h, cursor, 0)
         IN  [item |-> IF node = NULL THEN None ELSE Some(<<h[node].key, node>>),
              cursor |-> node]

\* IterMut::new: IterMut((*list.head_).next_mut(0)), the cursor self.0
IterMutNew(h, hd) == NodeNext(h, hd, 0)

\* IterMut::next: takes the node out of self.0, leaves its level-0 successor
\* there and hands back (*node_ptr).key_value_mut(): the node's key and the
\* reference to its value_, modelled by the node's address
IterMutNext(h, cursor) ==
    IF cursor = NULL THEN [item |-> None, cursor |-> NULL]
    ELSE [item |-> Some(<<h[cursor].key, cursor>>), cursor |-> NodeNext(h, cursor, 0)]

\* SkipListMap::iter_mut, collected: the items of next() up to its first None
RECURSIVE IterMutFrom(_, _)
IterMutFrom(h, cursor) ==
    LET step == IterMutNext(h, cursor)
    IN  IF step.item = None THEN <<>>
        ELSE <<step.item[1]>> \o IterMutFrom(h, step.cursor)

IterMutSeq(h, hd) == IterMutFrom(h, IterMutNew(h, hd))

\* `*v = value` through the &mut V that Node::key_value_mut handed out
WriteThrough(h, item, value) == [h EXCEPT ![item[2]].value = value]

\* A call of iter_mut, collected, and one write through the nth yielded value
\* reference (n = 0: nothing is written).
IterMutCall(n, value, watch) ==
    LET items == IterMutSeq(heap, head_)
    IN  /\ n <= Len(items)
        /\ heap' = IF n = 0 THEN heap ELSE WriteThrough(heap, items[n], value)
        /\ last' = Record(watch,
                     [Call("iter_mut", IF n = 0 THEN 0 ELSE items[n][1], value,
                           IF n = 0 THEN None ELSE Some(items[n][1]), FALSE)
                      EXCEPT !.out = [i \in DOMAIN items |-> items[i][1]]])
        /\ UNCHANGED <<head_, length_, height_, max_height_, controller_, refset, net>>

\* ------------------------------------------------------------------ range
\* std::collections::Bound values a range can be asked with
Bounds ==
    {NoBound} \cup {[kind |-> k, key |-> x] : k \in {"Included", "Excluded"}, x \in Keys}

\* node.key() as a comparison reads it: the ghost node's key is uninitialized
\* memory, read as the arbitrary value g
KeyRead(h, hd, a, g) == IF a = hd THEN g ELSE h[a].key

\* Range::new, `let lower_bound = match range.start()`
RangeLower(h, hd, height, lo) ==
    CASE lo.kind = "Included" -> NodeNext(h, FindLowerBound(h, hd, height, lo.key), 0)
      [] lo.kind = "Excluded" ->
            LET next == NodeNext(h, FindLowerBound(h, hd, height, lo.key), 0)
            IN  IF next = NULL THEN NULL
                ELSE IF h[next].key = lo.key THEN NodeNext(h, next, 0) ELSE next
      [] OTHER -> NodeNext(h, hd, 0)

\* Range::new, `let upper_bound = match range.end()`
RangeUpper(h, hd, height, hi) ==
    CASE hi.kind = "Included" -> NodeNext(h, FindLowerBound(h, hd, height, hi.key), 0)
      [] hi.kind = "Excluded" -> FindLowerBound(h, hd, height, hi.key)
      [] OTHER -> NULL

\* the range comparison written as next.key() < end.key()
KeyLessEqStrict(a, b) == a < b

\* next.key() <= end.key()
KeyLessEq(a, b) == a <= b

\* Range::next until it returns None: yield current_, then step to its level-0
\* successor if there is one and end_ is None or next.key() <= end.key()
RECURSIVE RangeFrom(_, _, _, _, _)
RangeFrom(h, hd, current, end, g) ==
    IF current = NULL THEN <<>>
    ELSE LET next == NodeNext(h, current, 0)
             step == IF next = NULL THEN NULL
                     ELSE IF end = NULL THEN next
                     ELSE IF KeyLessEq(h[next].key, KeyRead(h, hd, end, g)) THEN next
                     ELSE NULL
         IN  <<<<h[current].key, h[current].value>>>> \o RangeFrom(h, hd, step, end, g)

\* SkipListMap::range, collected
RangeSeq(h, hd, height, lo, hi, g) ==
    RangeFrom(h, hd, RangeLower(h, hd, height, lo), RangeUpper(h, hd, height, hi), g)

\* Whether running the range reads end.key() of the ghost node: Range::next
\* evaluates next.key() <= end.key() as soon as current_ has a successor, and
\* end_ is the ghost node when find_lower_bound found no smaller key.
RangeReadsGhost(h, hd, height, lo, hi) ==
    LET current == RangeLower(h, hd, height, lo)
    IN  /\ RangeUpper(h, hd, height, hi) = hd
        /\ current # NULL
        /\ NodeNext(h, current, 0) # NULL

\* What the reads of the ghost node's key made by a range may produce: the key
\* is read only when end_ is the ghost node.
GhostReads(h, hd, height, hi) ==
    IF RangeUpper(h, hd, height, hi) = hd THEN GhostKeys ELSE {Uninit}

\* a call of SkipListMap::range, run to exhaustion; g is what a read of the
\* ghost node's key produces
RangeCall(lo, hi, g) ==
    /\ last' = [Call("range", 0, 0, None, FALSE) EXCEPT
                    !.out = RangeSeq(heap, head_, height_, lo, hi, g),
                    !.ghost = RangeReadsGhost(heap, head_, height_, lo, hi),
                    !.lo = lo, !.hi = hi]
    /\ UNCHANGED <<heap, head_, length_, height_, max_height_, controller_, refset, net>>

\* The client makes any sequence of calls; it records one of them, with its
\* arguments and result, and makes no call after the recorded one.
Unrecorded == last = Idle

Next ==
    \/ /\ Unrecorded
       /\ \E key \in Keys, value \in Vals, height \in GenHeights(max_height_),
             watch \in BOOLEAN : Insert(key, value, height, watch)
    \/ /\ Unrecorded
       /\ \E key \in Keys, watch \in BOOLEAN : Remove(key, watch)
    \/ /\ Unrecorded
       /\ \E watch \in BOOLEAN : Clear(watch)
    \/ /\ Unrecorded
       /\ \E key \in Keys : GetCall(key)
    \/ /\ Unrecorded
       /\ IterCall
    \/ /\ Unrecorded
       /\ \E key \in Keys : IndexCall(key)
    \/ /\ Unrecorded
       /\ FmtCall

Spec == Init /\ [][Next]_vars

\* The same client, recording one range read to its end.
NextRange ==
    \/ /\ Unrecorded
       /\ \E key \in Keys, value \in Vals, height \in GenHeights(max_height_) :
             Insert(key, value, height, FALSE)
    \/ /\ Unrecorded
       /\ \E key \in Keys : Remove(key, FALSE)
    \/ /\ Unrecorded
       /\ Clear(FALSE)
    \/ /\ Unrecorded
       /\ \E lo \in Bounds, hi \in Bounds :
             \E g \in GhostReads(heap, head_, height_, hi) : RangeCall(lo, hi, g)

SpecRange == Init /\ [][NextRange]_vars

\* The map under its mutating calls alone, none of them recorded: the states
\* the structure itself can be in.
NextMutate ==
    \/ \E key \in Keys, value \in Vals, height \in GenHeights(max_height_) :
          Insert(key, value, height, FALSE)
    \/ \E key \in Keys : Remove(key, FALSE)
    \/ Clear(FALSE)

SpecMutate == Init /\ [][NextMutate]_vars

\* SkipList<K, V> under its mutating calls, one insert recorded.
NextSkipList ==
    \/ /\ Unrecorded
       /\ \E key \in Keys, value \in Vals, height \in GenHeights(max_height_),
             watch \in BOOLEAN : SkipListInsert(key, value, height, watch)
    \/ /\ Unrecorded
       /\ \E key \in Keys : SkipListRemove(key)
    \/ /\ Unrecorded
       /\ SkipListClear

SpecSkipList == Init /\ [][NextSkipList]_vars

\* SkipList<K> of list.rs under insert, remove and contains.
NextList ==
    \/ /\ Unrecorded
       /\ \E key \in Keys, height \in RandomHeights(max_height_), watch \in BOOLEAN :
             ListInsert(key, height, watch)
    \/ /\ Unrecorded
       /\ \E key \in Keys, watch \in BOOLEAN : ListRemove(key, watch)
    \/ /\ Unrecorded
       /\ \E key \in Keys : ListContainsCall(key)

SpecList == InitList /\ [][NextList]_vars

\* The mutating calls unrecorded, then one recorded call that takes &self.
NextReads ==
    \/ /\ Unrecorded
       /\ \E key \in Keys, value \in Vals, height \in GenHeights(max_height_) :
             Insert(key, value, height, FALSE)
    \/ /\ Unrecorded
       /\ \E key \in Keys : Remove(key, FALSE)
    \/ /\ Unrecorded
       /\ Clear(FALSE)
    \/ /\ Unrecorded
       /\ \E key \in Keys : GetCall(key)
    \/ /\ Unrecorded
       /\ \E key \in Keys : ContainsKeyCall(key)
    \/ /\ Unrecorded
       /\ FirstCall
    \/ /\ Unrecorded
       /\ LenCall
    \/ /\ Unrecorded
       /\ IsEmptyCall
    \/ /\ Unrecorded
       /\ IterCall
    \/ /\ Unrecorded
       /\ \E lo \in Bounds, hi \in Bounds :
             \E g \in GhostReads(heap, head_, height_, hi) : RangeCall(lo, hi, g)

SpecReads == Init /\ [][NextReads]_vars

\* The mutating calls and the writes made through iter_mut, one of them
\* recorded.
NextIterMut ==
    \/ /\ Unrecorded
       /\ \E key \in Keys, value \in Vals, height \in GenHeights(max_height_) :
             Insert(key, value, height, FALSE)
    \/ /\ Unrecorded
       /\ \E key \in Keys : Remove(key, FALSE)
    \/ /\ Unrecorded
       /\ Clear(FALSE)
    \/ /\ Unrecorded
       /\ \E n \in 0..MaxKey, value \in Vals, watch \in BOOLEAN :
             IterMutCall(n, value, watch)

SpecIterMut == Init /\ [][NextIterMut]_vars

\* Any sequence of unrecorded calls, then a clear or the drop of the map.
NextDrop ==
    \/ /\ Unrecorded
       /\ \E key \in Keys, value \in Vals, height \in GenHeights(max_height_) :
             Insert(key, value, height, FALSE)
    \/ /\ Unrecorded
       /\ \E key \in Keys : Remove(key, FALSE)
    \/ /\ Unrecorded
       /\ \E watch \in BOOLEAN : Clear(watch)
    \/ /\ Unrecorded
       /\ Drop

SpecDrop == Init /\ [][NextDrop]_vars

\* ---------------------------------------------------- generators, called
\* SkipListMap::new(Box::new(controller)) for any constructible generator
InitGen ==
    /\ controller_ \in Generators
    /\ max_height_ = MaxHeightOf(controller_)
    /\ head_ = AllocAddr(<<>>, MaxKey + 1)
    /\ heap = AllocateDummyNode(<<>>, head_, max_height_)
    /\ length_ = 0
    /\ height_ = 0
    /\ last = Idle
    /\ refset = {}
    /\ net = 0

\* a call of GeometricalGenerator::get_height with the draws `throws`
GeometricalGetHeightCall(key, throws) ==
    /\ controller_.kind = "Geometrical"
    /\ last' = [Call("get_height", key, 0,
                     Some(GeometricalGetHeight(controller_, throws)), FALSE)
                EXCEPT !.calls = 1, !.out = throws]
    /\ UNCHANGED <<heap, head_, length_, height_, max_height_, controller_, refset, net>>

\* a call of HashCoinGenerator::get_height: the key is hashed first, then
\* the remainder is taken
HashCoinGetHeightCall(key) ==
    /\ controller_.kind = "HashCoin"
    /\ LET hasher == HasherWrite(controller_.hasher_, key)
       IN  /\ controller_' = [controller_ EXCEPT !.hasher_ = hasher]
           /\ last' = [(IF HashCoinPanics(controller_)
                        THEN Call("get_height", key, 0, None, TRUE)
                        ELSE Call("get_height", key, 0,
                                  Some(HashCoinGetHeight(controller_, hasher)), FALSE))
                       EXCEPT !.calls = 1, !.out = <<HasherFinish(hasher)>>]
    /\ UNCHANGED <<heap, head_, length_, height_, max_height_, refset, net>>

\* a call of TwoPowGenerator::get_height drawing the word `rand`
TwoPowGetHeightCall(key, rand) ==
    /\ controller_.kind = "TwoPow"
    /\ last' = [Call("get_height", key, 0,
                     Some(TwoPowGetHeight(controller_, rand)), FALSE)
                EXCEPT !.calls = 1, !.out = <<rand>>]
    /\ UNCHANGED <<heap, head_, length_, height_, max_height_, controller_, refset, net>>

NextGen ==
    \/ \E key \in Keys, throws \in [1..MaxHeightOf(controller_) -> BOOLEAN] :
          GeometricalGetHeightCall(key, throws)
    \/ \E key \in Keys : HashCoinGetHeightCall(key)
    \/ \E key \in Keys, rand \in Words : TwoPowGetHeightCall(key, rand)

SpecGen == InitGen /\ [][NextGen]_vars

\* ------------------------------------------------------------------ claims
\* what the calls answer in the current state
CurIter == IterSeq(heap, head_)
CurGet(key) == Get(heap, head_, height_, key)
CurContains(key) == ContainsKey(heap, head_, height_, key)

\* the keys of a yielded sequence of (key, value) pairs, as a sequence and a set
KeySeq(seq) == [i \in DOMAIN seq |-> seq[i][1]]
KeySet(seq) == {seq[i][1] : i \in DOMAIN seq}

\* the value a yielded sequence pairs with key
ValueOf(seq, key) == CHOOSE v \in Vals : \E i \in DOMAIN seq : seq[i] = <<key, v>>

\* a sequence of keys is strictly ascending
Ascending(keys) == \A i \in 1..(Len(keys) - 1) : keys[i] < keys[i + 1]

\* the step just taken is a call of op that returned
Returned(op) == last'.op = op /\ ~last'.panicked

\* C1: after any sequence of insert, remove and clear calls, with any generated
\* heights, iter() yields the stored keys in strictly ascending order, so no
\* key twice.
C1_IterAscending == Ascending(KeySeq(CurIter))

\* an insert of a new smallest key, ahead of two or more stored keys
C1_Witness ==
    /\ last.op = "insert" /\ last.ret = None /\ ~last.panicked
    /\ Len(CurIter) >= 3
    /\ CurIter[1][1] = last.key

\* C2: run side by side with a reference ordered set that receives the same
\* keys, after every step len() is the set's size and contains_key(k) is the
\* set's membership of k, for every key k.
C2_MatchesReference ==
    /\ LenOf(length_) = Cardinality(refset)
    /\ \A k \in Keys : CurContains(k) <=> (k \in refset)

\* a successful remove that leaves other keys behind
C2_Witness ==
    /\ last.op = "remove" /\ last.ret # None
    /\ Cardinality(refset) >= 2
    /\ last.key \notin refset

C4_InsertExistingKey ==
    [][ (Returned("insert") /\ last'.key \in KeySet(CurIter))
        => /\ last'.ret = Some(ValueOf(CurIter, last'.key))
           /\ LenOf(length_') = LenOf(length_)
           /\ KeySeq(IterSeq(heap', head_')) = KeySeq(CurIter)
           /\ Get(heap', head_', height_', last'.key) = Some(last'.value) ]_vars

\* an insert over a present key has changed its value, other keys being stored
C4_Witness ==
    /\ last.op = "insert" /\ last.ret # None
    /\ last.ret # Some(last.value)
    /\ CurGet(last.key) = Some(last.value)
    /\ Len(CurIter) >= 2

\* the level-0 entries other than key's
Without(seq, key) == SelectSeq(seq, LAMBDA e : e[1] # key)

\* C5: remove(&k) of a present key returns Some of the value stored under k,
\* decreases len() by exactly 1, makes contains_key(&k) false and leaves every
\* other key present with its value unchanged.
C5_RemovePresent ==
    [][ (Returned("remove") /\ last'.key \in KeySet(CurIter))
        => /\ last'.ret = Some(ValueOf(CurIter, last'.key))
           /\ LenOf(length_') = LenOf(length_) - 1
           /\ ~ContainsKey(heap', head_', height_', last'.key)
           /\ IterSeq(heap', head_') = Without(CurIter, last'.key)
           /\ \A j \in Keys \ {last'.key} :
                 Get(heap', head_', height_', j) = CurGet(j) ]_vars

\* a key between two others has been removed and its neighbours are still there
C5_Witness ==
    /\ last.op = "remove" /\ last.ret # None
    /\ Len(CurIter) >= 2
    /\ CurIter[1][1] < last.key /\ last.key < CurIter[2][1]
    /\ ~CurContains(last.key)

C7_LengthCounts ==
    /\ LenOf(length_) = Len(CurIter)
    /\ LenOf(length_) = net
    /\ IsEmpty(length_) <=> (LenOf(length_) = 0)

\* inserts and a successful remove have both been counted
C7_Witness ==
    /\ last.op = "remove" /\ last.ret # None
    /\ net >= 1
    /\ LenOf(length_) = net

\* C8: after clear(), len() == 0, is_empty() is true, no key is contained, and
\* the map is in the state SkipListMap::new gives for the same max_height, so
\* that it answers every later sequence of calls as a new map would.
C8_ClearIsNew ==
    last.op = "clear"
    => /\ LenOf(length_) = 0
       /\ IsEmpty(length_)
       /\ \A k \in Keys : ~CurContains(k)
       /\ CurIter = <<>>
       /\ heap = AllocateDummyNode(<<>>, head_, max_height_)
       /\ height_ = 0

\* a clear has freed the ghost node and two or more real nodes
C8_Witness ==
    /\ last.op = "clear"
    /\ last.freed >= 3
    /\ max_height_ >= 2

\* key satisfies a lower bound / an upper bound
SatisfiesLower(key, lo) ==
    CASE lo.kind = "Included" -> key >= lo.key
      [] lo.kind = "Excluded" -> key > lo.key
      [] OTHER -> TRUE
SatisfiesUpper(key, hi) ==
    CASE hi.kind = "Included" -> key <= hi.key
      [] hi.kind = "Excluded" -> key < hi.key
      [] OTHER -> TRUE

\* the stored entries whose key satisfies both bounds, in key order
InRange(seq, lo, hi) ==
    SelectSeq(seq, LAMBDA e : SatisfiesLower(e[1], lo) /\ SatisfiesUpper(e[1], hi))

\* lower <= upper, an unbounded end being below or above everything
LowerLeqUpper(lo, hi) ==
    lo.kind = "Unbounded" \/ hi.kind = "Unbounded" \/ lo.key <= hi.key

\* C9: every entry range(lower, upper) yields has a key that satisfies both
\* bounds, and the range yields nothing when no stored key satisfies both.
C9_RangeWithinBounds ==
    last.op = "range"
    => /\ \A i \in DOMAIN last.out :
             SatisfiesLower(last.out[i][1], last.lo) /\ SatisfiesUpper(last.out[i][1], last.hi)
       /\ InRange(CurIter, last.lo, last.hi) = <<>> => last.out = <<>>

\* C10: with lower <= upper, range(lower, upper) yields every stored entry
\* whose key satisfies both bounds, each exactly once and in ascending key
\* order; it yields exactly those entries when the upper bound is unbounded,
\* or is Excluded and some stored key is in range (Included(2)..Excluded(5)
\* over 1..6), and Unbounded..Unbounded yields what iter() yields.
C10_RangeComplete ==
    (last.op = "range" /\ LowerLeqUpper(last.lo, last.hi))
    => LET want == InRange(CurIter, last.lo, last.hi)
       IN  /\ \A i \in DOMAIN want :
                 Cardinality({j \in DOMAIN last.out : last.out[j] = want[i]}) = 1
           /\ Ascending(KeySeq(last.out))
           /\ (last.hi.kind = "Unbounded" \/ (last.hi.kind = "Excluded" /\ want # <<>>))
                 => last.out = want
           /\ (last.lo.kind = "Unbounded" /\ last.hi.kind = "Unbounded")
                 => last.out = CurIter

\* a range with two key bounds has yielded the middle of the stored keys
C10_Witness ==
    /\ last.op = "range"
    /\ last.lo.kind = "Included" /\ last.hi.kind = "Included"
    /\ last.lo.key < last.hi.key
    /\ Len(CurIter) = 3
    /\ Len(last.out) = 2
    /\ last.out = InRange(CurIter, last.lo, last.hi)

\* C11: each supplied generator's get_height returns, for every key and every
\* outcome of its draws or hash, a height h with 0 <= h < max_height().
C11_GeneratorContract ==
    (last.op = "get_height" /\ ~last.panicked) =>
        /\ last.ret # None
        /\ last.ret[1] \in 0..(MaxHeightOf(controller_) - 1)

\* C12: insert invokes the generator's get_height exactly once when the key is
\* new and not at all when the key is already present.
C12_GetHeightOnlyForNewKeys ==
    [][last'.op = "insert" =>
          last'.calls = (IF last'.key \in KeySet(CurIter) THEN 0 ELSE 1)]_vars

\* C13: once new has returned, insert, get, contains_key, remove and clear
\* complete without panicking, for every key and every max_height the
\* generator reports (0 included).
C13_NoPanicAfterNew == ~last.panicked

\* the map's own state, without the record of the call
core == <<heap, head_, length_, height_, max_height_, controller_>>

\* C14: map[&k] returns the value get(&k) holds when k is present and panics
\* when k is absent (also on an empty map); either way the map is unchanged.
C14_IndexLikeGetOrPanics ==
    [][last'.op = "index" =>
          /\ IF last'.key \in KeySet(CurIter)
             THEN /\ ~last'.panicked
                  /\ last'.ret = Some(ValueOf(CurIter, last'.key))
                  /\ last'.ret = CurGet(last'.key)
             ELSE last'.panicked
          /\ core' = core]_vars

\* an index of a present key in a map of two entries or more
C14_Witness ==
    /\ last.op = "index"
    /\ ~last.panicked
    /\ last.ret = Some(2)
    /\ length_ >= 2

\* the addresses reached from `current` by following forward[level]; the
\* walk ends at null, or at an address that is not allocated (kept as its
\* last element)
RECURSIVE ChainFrom(_, _, _)
ChainFrom(h, current, level) ==
    IF current = NULL THEN <<>>
    ELSE IF current \notin DOMAIN h THEN <<current>>
    ELSE <<current>> \o ChainFrom(h, NodeNext(h, current, level), level)

\* the level-`level` chain after the sentinel
Chain(h, hd, level) == ChainFrom(h, NodeNext(h, hd, level), level)

SeqToSet(seq) == {seq[i] : i \in DOMAIN seq}

Allocated == DOMAIN heap' \ DOMAIN heap
Freed == DOMAIN heap \ DOMAIN heap'

\* the live allocations are the sentinel and the level-0 chain, each once
C15_LiveIsChain ==
    /\ head_ \in DOMAIN heap
    /\ DOMAIN heap = {head_} \cup SeqToSet(Chain(heap, head_, 0))
    /\ Cardinality(DOMAIN heap) = 1 + Len(Chain(heap, head_, 0))

\* a step that allocates is the insert of a key that was absent
C15_AllocOnlyByNewInsert ==
    Allocated # {} =>
        /\ Freed = {}
        /\ Cardinality(Allocated) = 1
        /\ \A a \in Allocated :
              /\ heap'[a].key \notin KeySet(CurIter)
              /\ a \in SeqToSet(Chain(heap', head_', 0))
        /\ last' # Idle => (last'.op = "insert" /\ last'.ret = None)

\* a step that frees is the remove that unlinks the node, or a clear
C15_FreeOnlyByRemoveOrClear ==
    Freed # {} =>
        /\ Allocated = {}
        /\ \/ /\ Cardinality(Freed) = 1
              /\ Freed \subseteq SeqToSet(Chain(heap, head_, 0))
              /\ \A a \in Freed : KeySet(CurIter') = KeySet(CurIter) \ {heap[a].key}
              /\ last' # Idle => (last'.op = "remove" /\ last'.ret # None)
           \/ /\ Freed = SeqToSet(Chain(heap, head_, 0))
              /\ CurIter' = <<>>
              /\ last' # Idle => last'.op = "clear"

\* a recorded call that is neither a new-key insert, a successful remove nor
\* a clear leaves the set of allocations alone
C15_OthersKeepHeap ==
    (/\ last' # Idle
     /\ ~(last'.op = "insert" /\ last'.ret = None /\ ~last'.panicked)
     /\ ~(last'.op = "remove" /\ last'.ret # None)
     /\ last'.op # "clear") => DOMAIN heap' = DOMAIN heap

\* C15: the nodes allocated and not yet freed are exactly the sentinel plus
\* the nodes of the level-0 chain; a node is allocated only by the insert of a
\* new key and freed only by the remove that unlinks it or by clear.
C15_AllocAtInsertFreeAtRemove ==
    /\ []C15_LiveIsChain
    /\ [][/\ C15_AllocOnlyByNewInsert
          /\ C15_FreeOnlyByRemoveOrClear
          /\ C15_OthersKeepHeap]_vars

\* a recorded remove has freed one node of a map that still holds another
C15_Witness ==
    /\ last.op = "remove"
    /\ last.freed = 1
    /\ length_ >= 1
    /\ Cardinality(DOMAIN heap) = 1 + length_

\* C16: dispose (run by drop and by clear) frees the sentinel and every node
\* of the level-0 chain exactly once each, reads a node's pointer only while
\* the node is still allocated, and does so too when only the sentinel exists.
C16_DisposeFreesEachOnce ==
    [][last'.op \in {"drop", "clear"} =>
          LET trace == last'.out
          IN  /\ \A i \in DOMAIN trace : trace[i].live
              /\ \A i, j \in DOMAIN trace : i # j => trace[i].node # trace[j].node
              /\ [i \in DOMAIN trace |-> trace[i].node]
                     = <<head_>> \o Chain(heap, head_, 0)
              /\ last'.freed = Len(trace)
              /\ last'.freed = 1 + length_
              /\ last'.op = "drop" => DOMAIN heap' = {}
              /\ last'.op = "clear" => DOMAIN heap' = {head_'}]_vars

\* a map of three entries or more has been dropped
C16_Witness ==
    /\ last.op = "drop"
    /\ last.freed >= 4
    /\ DOMAIN heap = {}

\* 'key: value' pieces joined by ', '
RECURSIVE Joined(_)
Joined(entries) ==
    IF entries = <<>> THEN <<>>
    ELSE IF Len(entries) = 1
    THEN <<ToString(entries[1][1]), ": ", ToString(entries[1][2])>>
    ELSE Joined(SubSeq(entries, 1, Len(entries) - 1))
         \o <<", ", ToString(entries[Len(entries)][1]), ": ",
                    ToString(entries[Len(entries)][2])>>

\* the stored entries listed by ascending key, from the reference set
RECURSIVE SortedEntries(_)
SortedEntries(keys) ==
    IF keys = {} THEN <<>>
    ELSE LET least == CHOOSE k \in keys : \A x \in keys : k <= x
         IN  <<<<least, ValueOf(CurIter, least)>>>> \o SortedEntries(keys \ {least})

\* C17: Display writes '[', each entry as 'key: value' in ascending key order
\* separated by ', ' with none after the last entry, then ']'; '[]' when empty.
C17_DisplayFormat ==
    last.op = "fmt" =>
        /\ last.out = <<"[">> \o Joined(SortedEntries(refset)) \o <<"]">>
        /\ refset = {} => last.out = <<"[", "]">>

\* a map of two entries or more has been formatted
C17_Witness ==
    /\ last.op = "fmt"
    /\ length_ >= 2
    /\ Len(last.out) = 4 * length_ + 1

\* C18: a map fresh from construction has len() == 0, is_empty() == true and
\* an iter() whose first next() is None.  No call of SpecGen touches the map,
\* so every state of it is a map fresh from new, one per generator.
C18_FreshMapIsEmpty ==
    /\ LenOf(length_) = 0
    /\ IsEmpty(length_)
    /\ NodeNext(heap, head_, 0) = NULL
    /\ CurIter = <<>>

\* a map fresh from new over a TwoPowGenerator, the generator of Default
C18_Witness ==
    /\ last = Idle
    /\ controller_ = TwoPowGenerator(2)
    /\ DOMAIN heap = {head_}
    /\ NodeHeight(heap[head_]) = 2

\* the keys of the nodes at the addresses `addrs`
KeysAt(h, addrs) == [i \in DOMAIN addrs |-> h[addrs[i]].key]

\* a is b with some of its elements left out
RECURSIVE IsSubsequence(_, _)
IsSubsequence(a, b) ==
    IF a = <<>> THEN TRUE
    ELSE IF b = <<>> THEN FALSE
    ELSE IF Head(a) = Head(b) THEN IsSubsequence(Tail(a), Tail(b))
    ELSE IsSubsequence(a, Tail(b))

\* C19: for every level i below max_height the nodes reached from the sentinel
\* through forward[i] have strictly increasing keys and, for i >= 1, form a
\* subsequence of the level-(i-1) chain.
C19_LevelChains ==
    \A i \in 0..(max_height_ - 1) :
        /\ SeqToSet(Chain(heap, head_, i)) \subseteq DOMAIN heap \ {head_}
        /\ Ascending(KeysAt(heap, Chain(heap, head_, i)))
        /\ i >= 1 => IsSubsequence(Chain(heap, head_, i), Chain(heap, head_, i - 1))

\* level 1 links two nodes and skips one that level 0 holds between them
C19_Witness ==
    /\ max_height_ >= 2
    /\ Len(Chain(heap, head_, 1)) = 2
    /\ Len(Chain(heap, head_, 0)) = 3
    /\ Chain(heap, head_, 1) = <<Chain(heap, head_, 0)[1], Chain(heap, head_, 0)[3]>>

\* C20: every real node of generated height h (h + 1 forward slots) is linked
\* into the chain of every level 0..=h and of no other level.
C20_LinkedAtLevelsUpToHeight ==
    \A a \in DOMAIN heap \ {head_} :
        \A level \in 0..NodeHeight(heap[head_]) :
            a \in SeqToSet(Chain(heap, head_, level)) <=> level <= NodeHeight(heap[a])

\* keys a search can be asked for: the stored range and one key on each side
Queries == 0..(MaxKey + 1)

\* the real nodes whose key is strictly less than q
Below(h, hd, q) == {a \in DOMAIN h \ {hd} : h[a].key < q}

\* the node of greatest key strictly less than q, or the sentinel
Predecessor(h, hd, q) ==
    IF Below(h, hd, q) = {} THEN hd
    ELSE CHOOSE a \in Below(h, hd, q) : \A b \in Below(h, hd, q) : h[b].key <= h[a].key

\* C21: for every key q, find_lower_bound(q) returns the node with the
\* greatest key strictly less than q among all stored nodes, or the sentinel
\* when no stored key is less than q.
C21_FindLowerBound ==
    \A q \in Queries :
        FindLowerBound(heap, head_, height_, q) = Predecessor(heap, head_, q)

\* a search through two levels ends on a node that only level 0 holds
C21_Witness ==
    /\ height_ = 2
    /\ Len(Chain(heap, head_, 0)) = 3
    /\ Len(Chain(heap, head_, 1)) = 2
    /\ FindLowerBound(heap, head_, height_, MaxKey + 1) = Chain(heap, head_, 0)[3]
    /\ Chain(heap, head_, 0)[3] \notin SeqToSet(Chain(heap, head_, 1))

\* the nodes of the level-`level` chain whose key is strictly less than q
BelowAt(h, hd, level, q) ==
    {a \in SeqToSet(Chain(h, hd, level)) : h[a].key < q}

\* the last node of the level-`level` chain with key below q, or the sentinel
LevelPredecessor(h, hd, level, q) ==
    IF BelowAt(h, hd, level, q) = {} THEN hd
    ELSE CHOOSE a \in BelowAt(h, hd, level, q) :
             \A b \in BelowAt(h, hd, level, q) : h[b].key <= h[a].key

\* what find_lower_bound_with_updates(q) hands back, when it returns:
\* max_height entries, entry i the level-i predecessor of q, the sentinel at
\* every level from `floor` up, and the returned node equal to entry 0
UpdatesAsClaimed(q, floor) ==
    ~UpdatesPanics(height_, max_height_) =>
        LET r == FindLowerBoundWithUpdates(heap, head_, height_, max_height_, q)
        IN  /\ Len(r[2]) = max_height_
            /\ \A i \in 0..(max_height_ - 1) :
                  /\ r[2][i + 1] = LevelPredecessor(heap, head_, i, q)
                  /\ i >= floor => r[2][i + 1] = head_
            /\ r[1] = r[2][1]

NoDanglingPointer(h) ==
    \A a \in DOMAIN h : \A i \in DOMAIN h[a].forward :
        h[a].forward[i] = NULL \/ h[a].forward[i] \in DOMAIN h

\* the addresses some forward pointer of a live node holds
PointedAt(h) ==
    UNION {{h[a].forward[i] : i \in DOMAIN h[a].forward} : a \in DOMAIN h} \ {NULL}

\* C23: after any sequence of operations every forward pointer of every live
\* node, sentinel included, at every level, is null or points to a live node;
\* after remove(&k) no forward pointer at any level holds the freed node.
C23_NoDanglingPointers ==
    /\ []NoDanglingPointer(heap)
    /\ [][(Freed # {} /\ Allocated = {}) => Freed \cap PointedAt(heap') = {}]_vars

\* a recorded remove has freed a node that two levels linked
C23_Witness ==
    /\ last.op = "remove"
    /\ last.freed = 1
    /\ height_ = 2
    /\ length_ = 1
    /\ Chain(heap, head_, 1) = <<>>
    /\ net = 1

\* C24: no operation reads the key or value stored in the sentinel: the
\* searches and the iteration read only nodes a forward pointer leads to,
\* which the sentinel never is, and no range compares against the sentinel.
C24_SentinelNeverRead ==
    /\ head_ \notin PointedAt(heap)
    /\ last.op = "range" => ~last.ghost

\* The pointers, keys and values of the nodes that existed before the step,
\* with `a` the node the step allocated: a pointer that changed is at a level
\* not above the new node's height, belongs to the level's predecessor of the
\* new key, and now holds the new node.
InsertFrame(a) ==
    \A b \in DOMAIN heap :
        /\ b \in DOMAIN heap'
        /\ heap'[b].key = heap[b].key
        /\ heap'[b].value = heap[b].value
        /\ DOMAIN heap'[b].forward = DOMAIN heap[b].forward
        /\ \A i \in DOMAIN heap[b].forward :
              heap'[b].forward[i] # heap[b].forward[i] =>
                  /\ i - 1 <= NodeHeight(heap'[a])
                  /\ i - 1 < SpliceLevels(NodeHeight(heap'[a]))
                  /\ b = LevelPredecessor(heap, head_, i - 1, heap'[a].key)
                  /\ heap'[b].forward[i] = a
                  /\ heap'[a].forward[i] = heap[b].forward[i]

\* C25: an insert of a new key with generated height h changes forward
\* pointers only in the new node and in its per-level predecessors at the
\* levels where the node is spliced; no pointer above level h and no key or
\* value of an existing node is modified.
C25_InsertFrame ==
    [][Allocated # {} => \A a \in Allocated : InsertFrame(a)]_vars

\* a recorded insert has spliced a node of height 2 behind another at level 1
C25_Witness ==
    /\ last.op = "insert"
    /\ last.ret = None
    /\ ~last.panicked
    /\ Len(Chain(heap, head_, 1)) = 2
    /\ heap[Chain(heap, head_, 1)[2]].key = last.key
    /\ Len(Chain(heap, head_, 0)) = 3

\* C26: height_ never decreases across insert, remove, get or iteration: a
\* new-key insert with generated height h sets it to max(old, h), a remove
\* leaves it unchanged, and only clear resets it to 0.
C26_HeightMonotone ==
    [][/\ (last'.op = "insert" /\ Allocated # {}) =>
             \A a \in Allocated : height_' = Max(height_, NodeHeight(heap'[a]))
       /\ (last'.op = "insert" /\ Allocated = {}) => height_' = height_
       /\ last'.op \in {"remove", "get", "iter", "index", "fmt"} => height_' = height_
       /\ last'.op = "clear" => height_' = 0
       /\ height_' < height_ =>
             /\ last' = Idle \/ last'.op = "clear"
             /\ height_' = 0
             /\ DOMAIN heap' = {head_'}]_vars

\* a recorded remove took the only node of height 2 out of a map that keeps
\* two others, and height_ is still 2
C26_Witness ==
    /\ last.op = "remove"
    /\ last.freed = 1
    /\ height_ = 2
    /\ length_ = 2
    /\ \A a \in DOMAIN heap \ {head_} : NodeHeight(heap[a]) < 2

\* C27: in every reachable state height_ <= max_height_, for every height the
\* supplied generators can return.
C27_HeightWithinMax == height_ <= max_height_

\* the generator has returned max_height itself and height_ has reached it
C27_Witness ==
    /\ max_height_ = 2
    /\ height_ = max_height_
    /\ \E a \in DOMAIN heap \ {head_} : NodeHeight(heap[a]) = max_height_

\* C28: the sentinel's forward pointer is null at every level i >=
\* max(height_, 1): the search, which starts at level max(height_, 1) - 1,
\* starts at or above the highest level that holds a real node.
C28_SentinelNullAboveHeight ==
    \A i \in 0..NodeHeight(heap[head_]) :
        i >= SearchLevels(height_) =>
            /\ NodeNext(heap, head_, i) = NULL
            /\ Chain(heap, head_, i) = <<>>

\* the top level the search starts at holds a node, the one above is empty
C28_Witness ==
    /\ height_ = 2
    /\ NodeNext(heap, head_, 1) # NULL
    /\ NodeNext(heap, head_, 2) = NULL
    /\ length_ >= 2

\* C29: every Node::link_to and Node::link_to_next call made by insert and
\* remove satisfies its debug assertions (level <= height of the node written
\* and of the node read), for all generated heights in 0..=max_height.
C29_LinkAssertionsHold == last.op \in {"insert", "remove"} => last.asserted

\* a recorded insert has spliced a node of the greatest height, max_height
C29_Witness ==
    /\ last.op = "insert"
    /\ last.ret = None
    /\ ~last.panicked
    /\ last.asserted
    /\ max_height_ = 2
    /\ length_ >= 2
    /\ \E a \in DOMAIN heap \ {head_} :
          heap[a].key = last.key /\ NodeHeight(heap[a]) = max_height_

\* C30: an iterator obtained from iter() on a map with len() == n yields
\* exactly n items and then None, and every later call of next() returns
\* None too (three calls past the end are made).
C30_IterYieldsLenItems ==
    LET n == LenOf(length_)
        run == IterRun(heap, IterNew(heap, head_), n + 3)
    IN  /\ \A i \in 1..n : run[i] # None /\ run[i] = Some(CurIter[i])
        /\ \A i \in (n + 1)..(n + 3) : run[i] = None

\* a map of three entries: three items, then None
C30_Witness ==
    /\ LenOf(length_) = 3
    /\ IterRun(heap, IterNew(heap, head_), 5)[3] # None
    /\ IterRun(heap, IterNew(heap, head_), 5)[4] = None
    /\ IterRun(heap, IterNew(heap, head_), 5)[5] = None

\* C31: an iterator obtained from iter() carries a remaining count that
\* starts at len() and drops by one per yielded item: after any number of
\* calls of next() its size hint is the number of items it will still yield
\* (stated of the hint's lower bound, the count the iterator vouches for).
C31_SizeHintIsRemaining ==
    LET n == LenOf(length_)
    IN  \A k \in 0..n :
           LET hint == IterSizeHint(IterCursorAfter(heap, IterNew(heap, head_), k))
           IN  hint.lower = n - k

\* C32: iter_mut() visits the same keys in the same order as iter(); a write
\* through a yielded value reference changes that entry's value only (keys,
\* their order, len(), height_ and every forward pointer stay) and a later
\* get of that key returns the written value.
C32_IterMutWritesOneValue ==
    [][last'.op = "iter_mut" =>
         /\ last'.out = KeySeq(CurIter)
         /\ KeySeq(CurIter') = KeySeq(CurIter)
         /\ <<head_, length_, height_, max_height_, controller_>>'
               = <<head_, length_, height_, max_height_, controller_>>
         /\ DOMAIN heap' = DOMAIN heap
         /\ \A a \in DOMAIN heap :
               /\ heap'[a].forward = heap[a].forward
               /\ heap'[a].key = heap[a].key
               /\ heap'[a].value # heap[a].value =>
                     (a # head_ /\ last'.ret = Some(heap[a].key))
         /\ last'.ret # None =>
               Get(heap', head_', height_', last'.key) = Some(last'.value)]_vars

\* the second of three entries was written through iter_mut and changed
C32_Witness ==
    /\ last.op = "iter_mut"
    /\ Len(last.out) = 3
    /\ last.ret = Some(last.out[2])
    /\ \E i \in 1..3 : i # 2 /\ CurIter[i][2] # last.value
    /\ CurGet(last.key) = Some(last.value)

ReadOps == {"get", "contains_key", "first", "len", "is_empty", "iter", "range"}

C34_DuplicateInsertIsNoOp ==
    [][(last'.op = "insert_bool" /\ CurContains(last'.key)) =>
         /\ last'.ret = Some(FALSE)
         /\ ~last'.panicked
         /\ core' = core
         /\ Get(heap', head_', height_', last'.key) = CurGet(last'.key)]_vars

\* a duplicate insert that offered another value than the stored one, in a
\* map of two entries
C34_Witness ==
    /\ last.op = "insert_bool"
    /\ last.ret = Some(FALSE)
    /\ length_ = 2
    /\ CurGet(last.key) # None
    /\ CurGet(last.key) # Some(last.value)

\* the keys on the level-0 chain of the list, in chain order
ListKeys == KeysAt(heap, Chain(heap, head_, 0))

\* C35: in the key-only list of list.rs, after any sequence of insert and
\* remove calls and for every height random_height may return (runs in which
\* every node gets height 0 included), the level-0 chain from the sentinel
\* is strictly ascending in key, with no key stored twice.
C35_ListAscending == Ascending(ListKeys)

\* C36: in the key-only list of list.rs, once insert(k) has returned true,
\* contains(&k) is true and stays true through further inserts of other
\* keys, until remove(&k) is called (refset: the keys whose insert returned
\* true and for which remove has not been called since).
C36_InsertedStaysContained ==
    \A k \in refset : ListContains(heap, head_, height_, k)

\* C37: HashCoinGenerator::get_height is a function of the key alone for a
\* given generator instance: two calls with equal keys return equal heights,
\* whatever keys the instance hashed in between (none, in the case stated
\* here: the second call follows the first).
C37_HashCoinFunctionOfKey ==
    [][(/\ controller_.kind = "HashCoin"
        /\ last.op = "get_height" /\ ~last.panicked
        /\ last'.op = "get_height" /\ ~last'.panicked
        /\ last'.key = last.key) => last'.ret = last.ret]_vars

====
